---------------------------- MODULE Spec2Model ----------------------------
(***************************************************************************)
(* Model of gst/autodetect/gstautovideosrc.c: the autovideosrc bin, which  *)
(* on NULL->READY probes the registered video sources in rank order and    *)
(* wraps the first one that reaches READY behind one ghost pad.            *)
(*                                                                         *)
(* The registry, the candidate elements and the GStreamer core (bins,      *)
(* ghost pads, buses) are the environment: a registered feature carries    *)
(* what the probed element would do (whether it can be created, its pad    *)
(* caps, the result of its READY transition, the messages it posts and     *)
(* whether its pad links to the ghost pad).                                *)
(***************************************************************************)
EXTENDS Integers, Sequences, FiniteSets, TLC

-----------------------------------------------------------------------------
(* Bounds of the model *)

\* most features the registry holds at one activation
MaxFeatures == 3
\* element identities (addresses) that can be live or referenced at once
MaxIds == 3

-----------------------------------------------------------------------------
(* Strings as character sequences, ordered as strcmp orders them *)

Alphabet ==
    <<"2", "4", "a", "c", "e", "f", "g", "k", "l", "o", "r", "s", "t", "u", "v", "z">>

Ord(c) == CHOOSE i \in 1..Len(Alphabet) : Alphabet[i] = c

RECURSIVE strcmp(_, _)
strcmp(s1, s2) ==
    IF s1 = <<>> /\ s2 = <<>> THEN 0
    ELSE IF s1 = <<>> THEN 0 - 1
    ELSE IF s2 = <<>> THEN 1
    ELSE IF Head(s1) # Head(s2) THEN Ord(Head(s1)) - Ord(Head(s2))
    ELSE strcmp(Tail(s1), Tail(s2))

asrc == <<"a", "s", "r", "c">>
zsrc == <<"z", "s", "r", "c">>
v4l2src == <<"v", "4", "l", "2", "s", "r", "c">>
\* the factory of the placeholder, and the name of the bin itself
fakesrc == <<"f", "a", "k", "e", "s", "r", "c">>
autovideosrc == <<"a", "u", "t", "o">>

-----------------------------------------------------------------------------
(* Ranks.  A rank is a guint; the model stores rank / RankUnit, so that    *)
(* 32-bit arithmetic on ranks that are multiples of RankUnit is arithmetic *)
(* modulo RankModulus = 2^32 / RankUnit on the stored values.              *)

RankUnit == 32
RankModulus == 134217728
GST_RANK_MARGINAL == 64 \div RankUnit
GST_RANK_SECONDARY == 128 \div RankUnit
GST_RANK_PRIMARY == 256 \div RankUnit
\* a rank below the autoplugging threshold that is not zero (32)
LowRank == 32 \div RankUnit
\* a rank above G_MAXINT (2^31 + 128)
HugeRank == (RankModulus \div 2) + (128 \div RankUnit)

\* a guint difference stored in a gint
ToGint(x) == IF x >= RankModulus \div 2 THEN x - RankModulus ELSE x

-----------------------------------------------------------------------------
(* Caps: a set of media types; NoCaps is the NULL pointer *)

NoCaps == {"NULL"}
raw_caps == {"video/x-raw-yuv", "video/x-raw-rgb"}
jpeg_caps == {"image/jpeg"}

gst_caps_can_intersect(caps1, caps2) == caps1 \cap caps2 # {}

\* the values an application writes to filter-caps
FilterValues == {NoCaps, raw_caps, jpeg_caps}

-----------------------------------------------------------------------------
(* The registry: features with what their element does when probed *)

Feature(name, type, klass, rank, creates, caps, ready, msgs, links) ==
    [name |-> name, type |-> type, klass |-> klass, rank |-> rank,
     creates |-> creates, caps |-> caps, ready |-> ready, msgs |-> msgs,
     links |-> links]

SourceVideo == {"Source", "Video"}

Catalogue ==
    { Feature(zsrc, "element", SourceVideo, GST_RANK_MARGINAL, TRUE,
              {"video/x-raw-yuv"}, "SUCCESS", <<"state-changed">>, TRUE),
      Feature(zsrc, "element", SourceVideo, GST_RANK_SECONDARY, FALSE,
              {"video/x-raw-yuv"}, "SUCCESS", <<>>, TRUE),
      Feature(zsrc, "element", {"Sink", "Video"}, GST_RANK_PRIMARY, TRUE,
              {"video/x-raw-yuv"}, "SUCCESS", <<>>, TRUE),
      Feature(asrc, "element", SourceVideo, GST_RANK_SECONDARY, TRUE,
              {"video/x-raw-rgb"}, "FAILURE", <<"warning", "error", "error">>, TRUE),
      Feature(asrc, "element", SourceVideo, GST_RANK_PRIMARY, TRUE,
              jpeg_caps, "SUCCESS", <<>>, TRUE),
      Feature(asrc, "element", SourceVideo, GST_RANK_MARGINAL, TRUE,
              {"video/x-raw-yuv"}, "SUCCESS", <<>>, FALSE),
      Feature(v4l2src, "element", SourceVideo, GST_RANK_PRIMARY, TRUE,
              {"video/x-raw-yuv", "image/jpeg"}, "FAILURE", <<>>, TRUE),
      Feature(v4l2src, "element", SourceVideo, GST_RANK_MARGINAL, TRUE,
              {"video/x-raw-yuv", "image/jpeg"}, "FAILURE", <<"error">>, TRUE),
      Feature(v4l2src, "element", SourceVideo, GST_RANK_MARGINAL, TRUE,
              {"video/x-raw-yuv"}, "ASYNC", <<>>, TRUE),
      Feature(v4l2src, "element", SourceVideo, HugeRank, TRUE,
              {"video/x-raw-yuv"}, "SUCCESS", <<>>, TRUE),
      Feature(v4l2src, "element", SourceVideo, LowRank, TRUE,
              {"video/x-raw-yuv"}, "SUCCESS", <<>>, TRUE),
      Feature(v4l2src, "typefind", SourceVideo, GST_RANK_PRIMARY, TRUE,
              {"video/x-raw-yuv"}, "SUCCESS", <<>>, TRUE) }

\* feature names are unique in a registry
Registries ==
    { r \in SUBSET Catalogue :
        /\ Cardinality(r) <= MaxFeatures
        /\ \A f, g \in r : f.name = g.name => f = g }

RECURSIVE Perms(_)
Perms(S) ==
    IF S = {} THEN {<<>>}
    ELSE UNION { { <<x>> \o p : p \in Perms(S \ {x}) } : x \in S }

Range(s) == { s[i] : i \in 1..Len(s) }

-----------------------------------------------------------------------------
(* Elements and messages *)

\* an element: its factory, its name, its identity and its state
Element(factory, name, id, st) ==
    [factory |-> factory, name |-> name, id |-> id, state |-> st]

\* the NULL element pointer and the unset ghost pad target
NoKid == Element(<<>>, "NULL", 0, "NULL")
NoTarget == 0

IsPlaceholder(el) == el # NoKid /\ el.factory = fakesrc

Msg(type, src, seq, text) ==
    [type |-> type, src |-> src, seq |-> seq, text |-> text]

\* a call on an element, as the operations make them in order: "create",
\* "unref", "set_state_ready", "set_state_null", "bin_add", "bin_remove" and
\* "set_target"
Ev(call, el) == [call |-> call, factory |-> el.factory, id |-> el.id]

\* an identity not in use
FreshId(used) == CHOOSE i \in 1..MaxIds : i \notin used /\ \A j \in 1..(i - 1) : j \in used

\* what the element of feature f posts on its bus while it is set to READY
BusOf(f) == [i \in 1..Len(f.msgs) |-> Msg(f.msgs[i], f.name, i, "device")]

-----------------------------------------------------------------------------
(* The state *)

VARIABLES
    registry,     \* the features registered in the default registry
    state,        \* the state of the bin: "NULL", "READY" or "PAUSED"
    kid,          \* src->kid
    children,     \* the identities of the elements in the bin
    target,       \* the identity of the element whose pad the ghost pad targets
    filter_caps,  \* src->filter_caps
    lastOp,       \* the last operation
    ret,          \* what the last state change returned
    posted,       \* the messages the bin posted in the last operation
    found,        \* the probing record of the last operation
    earlier,      \* the sorted list of the activation before the last operation
    applied       \* a function of the file applied on its own: inputs and results

vars == <<registry, state, kid, children, target, filter_caps, lastOp, ret,
          posted, found, earlier, applied>>

-----------------------------------------------------------------------------
(* gst_auto_video_src_factory_filter *)

strstr(klass, word) == word \in klass

\* the filter without its rank threshold
factory_filter_any_rank(feature) ==
    /\ feature.type = "element"
    /\ strstr(feature.klass, "Source") /\ strstr(feature.klass, "Video")

gst_auto_video_src_factory_filter(feature) ==
    IF feature.type # "element" THEN FALSE
    ELSE IF ~(strstr(feature.klass, "Source") /\ strstr(feature.klass, "Video")) THEN FALSE
    ELSE IF feature.rank < GST_RANK_MARGINAL THEN FALSE
    ELSE TRUE

\* the list of the activation before kept and used again
feature_filter_cached(reg) ==
    LET kept == IF lastOp = "NULL_TO_READY" THEN found.list ELSE earlier
    IN  IF kept # <<>> THEN {kept}
        ELSE Perms({ f \in reg : gst_auto_video_src_factory_filter(f) })

\* gst_registry_feature_filter: the features the filter accepts, in any order
gst_registry_feature_filter(reg) ==
    Perms({ f \in reg : gst_auto_video_src_factory_filter(f) })

-----------------------------------------------------------------------------
(* gst_auto_video_src_compare_ranks and the sort *)

gst_auto_video_src_compare_ranks(f1, f2) ==
    LET diff == ToGint((f2.rank - f1.rank) % RankModulus)
    IN  IF diff # 0 THEN diff ELSE strcmp(f2.name, f1.name)

\* g_list_sort is a merge sort: the list is cut into halves, each sorted, and
\* merged taking from the first half while the comparison is <= 0
RECURSIVE g_list_sort_merge(_, _)
g_list_sort_merge(l1, l2) ==
    IF l1 = <<>> THEN l2
    ELSE IF l2 = <<>> THEN l1
    ELSE IF gst_auto_video_src_compare_ranks(Head(l1), Head(l2)) <= 0
         THEN <<Head(l1)>> \o g_list_sort_merge(Tail(l1), l2)
         ELSE <<Head(l2)>> \o g_list_sort_merge(l1, Tail(l2))

RECURSIVE g_list_sort(_)
g_list_sort(list) ==
    IF Len(list) <= 1 THEN list
    ELSE LET half == Len(list) \div 2
         IN  g_list_sort_merge(g_list_sort(SubSeq(list, 1, half)),
                               g_list_sort(SubSeq(list, half + 1, Len(list))))

-----------------------------------------------------------------------------
(* gst_auto_video_src_find_best *)

\* the caps test with its negation lost
no_match_inverted(filter, el_caps) ==
    filter # NoCaps /\ gst_caps_can_intersect(filter, el_caps)

\* line 267-277: the candidate is dropped when a filter is set and its pad
\* caps do not intersect it
no_match(filter, el_caps) ==
    filter # NoCaps /\ ~gst_caps_can_intersect(filter, el_caps)

\* the trial taken to have worked unless it returned FAILURE
trial_not_failed(res) == res # "FAILURE"

\* line 288: the trial transition counts only when it returns SUCCESS
trial_worked(res) == res = "SUCCESS"

\* line 295-298: gst_bus_pop_filtered until the bus is empty keeps the errors,
\* in the order they were posted
pop_errors(bus) == SelectSeq(bus, LAMBDA m : m.type = "error")

\* the probing record: the sorted list, the elements created, the elements
\* set to READY, the error list, the choice, the messages the bin posted and
\* the calls made on elements
NoFind ==
    [list |-> <<>>, created |-> <<>>, trials |-> <<>>, errors |-> <<>>,
     choice |-> NoKid, posted |-> <<>>, trace |-> <<>>]

\* the candidate released while it may still be outside NULL
reject_unref_only(el) == <<Ev("unref", el)>>

\* line 300-301: a candidate that failed is set to NULL, then released
reject(el) == <<Ev("set_state_null", el), Ev("unref", el)>>

\* the loop without its break: it goes on after a candidate reached READY and
\* keeps the last one that did
RECURSIVE probe_loop_no_break(_, _, _, _)
probe_loop_no_break(item, filter, id, acc) ==
    IF item = <<>> THEN acc
    ELSE LET f == Head(item)
             el == Element(f.name, "actual-src", id, "NULL")
         IN
         IF ~f.creates THEN probe_loop_no_break(Tail(item), filter, id, acc)
         ELSE LET made == [acc EXCEPT !.created = Append(@, f.name),
                                      !.trace = Append(@, Ev("create", el))] IN
              IF no_match(filter, f.caps)
              THEN probe_loop_no_break(Tail(item), filter, id,
                     [made EXCEPT !.trace = Append(@, Ev("unref", el))])
              ELSE LET tried ==
                         [made EXCEPT !.trials = Append(@, f.name),
                                      !.trace = Append(@, Ev("set_state_ready", el))]
                   IN
                   IF trial_worked(f.ready)
                   THEN probe_loop_no_break(Tail(item), filter, id,
                          [tried EXCEPT !.choice = [el EXCEPT !.state = "READY"]])
                   ELSE probe_loop_no_break(Tail(item), filter, id,
                          [tried EXCEPT !.errors = @ \o pop_errors(BusOf(f)),
                                        !.trace = @ \o reject(el)])

\* line 256-303: the loop over the sorted list
RECURSIVE probe_loop(_, _, _, _)
probe_loop(item, filter, id, acc) ==
    IF item = <<>> THEN acc
    ELSE LET f == Head(item)
             el == Element(f.name, "actual-src", id, "NULL")
         IN
         IF ~f.creates THEN probe_loop(Tail(item), filter, id, acc)
         ELSE LET made == [acc EXCEPT !.created = Append(@, f.name),
                                      !.trace = Append(@, Ev("create", el))] IN
              IF no_match(filter, f.caps)
              THEN probe_loop(Tail(item), filter, id,
                     [made EXCEPT !.trace = Append(@, Ev("unref", el))])
              ELSE LET tried ==
                         [made EXCEPT !.trials = Append(@, f.name),
                                      !.trace = Append(@, Ev("set_state_ready", el))]
                   IN
                   IF trial_worked(f.ready)
                   THEN [tried EXCEPT !.choice = [el EXCEPT !.state = "READY"]]
                   ELSE probe_loop(Tail(item), filter, id,
                          [tried EXCEPT !.errors = @ \o pop_errors(BusOf(f)),
                                        !.trace = @ \o reject(el)])

\* the last error of the list instead of the first
last_error(errors) == errors[Len(errors)]

\* line 310-312: the error that is posted again
first_error(errors) == errors[1]

\* the test for errors off by one
have_more_errors(errors) == Len(errors) > 1

\* line 307: whether there is an error to forward
have_errors(errors) == errors # <<>>

\* line 315-316
not_found_warning ==
    Msg("warning", autovideosrc, 0, "Failed to find a usable video source")

\* line 306-322: what is done when the loop chose nothing
no_choice(acc, id) ==
    IF have_errors(acc.errors)
    THEN [acc EXCEPT !.posted = Append(@, first_error(acc.errors))]
    ELSE LET fake == Element(fakesrc, "fake-video-src", id, "READY")
         IN  [acc EXCEPT !.posted = Append(@, not_found_warning),
                         !.choice = fake,
                         !.trace = @ \o <<Ev("create", fake),
                                          Ev("set_state_ready", fake)>>]

\* the first error posted again although a candidate was chosen
find_best_reposts_always(list, filter, id) ==
    LET sorted == g_list_sort(list)
        acc == probe_loop(sorted, filter, id, [NoFind EXCEPT !.list = sorted])
    IN  IF acc.choice = NoKid THEN no_choice(acc, id)
        ELSE IF have_errors(acc.errors)
             THEN [acc EXCEPT !.posted = Append(@, first_error(acc.errors))]
             ELSE acc

gst_auto_video_src_find_best(list, filter, id) ==
    LET sorted == g_list_sort(list)
        acc == probe_loop(sorted, filter, id, [NoFind EXCEPT !.list = sorted])
    IN  IF acc.choice = NoKid THEN no_choice(acc, id) ELSE acc

-----------------------------------------------------------------------------
(* gst_auto_video_src_create_element_with_pretty_name.  The marker is a C  *)
(* string in a buffer of strlen + 1 bytes: the characters and the          *)
(* terminator; C index i is position i + 1 of the sequence.                *)

NUL == "NUL"
src_suffix == <<"s", "r", "c">>
gst_prefix == <<"g", "s", "t">>
actual_src == <<"-", "a", "c", "t", "u", "a", "l", "-", "s", "r", "c", "-">>

strlen(buf) ==
    (CHOOSE i \in 1..Len(buf) :
        buf[i] = NUL /\ \A j \in 1..(i - 1) : buf[j] # NUL) - 1

\* the string a buffer holds
c_str(buf) == SubSeq(buf, 1, strlen(buf))

\* line 224
g_strdup(name) == name \o <<NUL>>

g_str_has_suffix(buf, suffix) ==
    /\ strlen(buf) >= Len(suffix)
    /\ SubSeq(buf, strlen(buf) - Len(suffix) + 1, strlen(buf)) = suffix

g_str_has_prefix(buf, prefix) ==
    /\ strlen(buf) >= Len(prefix)
    /\ SubSeq(buf, 1, Len(prefix)) = prefix

\* line 226: the C index the terminator is written at
cut_index(buf) == strlen(buf) - 4

\* line 225-226: the buffers the store can leave, with the index written.
\* For a name that is just "src" the index is -1, a store in front of the
\* allocation: undefined behaviour, after which the process either goes on
\* with the buffer as it was or is aborted by the allocator's checks.
cut_suffix(buf) ==
    IF ~g_str_has_suffix(buf, src_suffix)
    THEN {[buf |-> buf, writes |-> {}, aborted |-> FALSE]}
    ELSE IF cut_index(buf) >= 0
    THEN {[buf |-> [buf EXCEPT ![cut_index(buf) + 1] = NUL],
           writes |-> {cut_index(buf)}, aborted |-> FALSE]}
    ELSE {[buf |-> buf, writes |-> {cut_index(buf)}, aborted |-> a] :
             a \in BOOLEAN}

\* line 227-228: the rest of the string and its terminator moved to the front
g_memmove(buf, n) ==
    [i \in 1..Len(buf) |-> IF i <= strlen(buf) - n + 1 THEN buf[i + n] ELSE buf[i]]

cut_prefix(buf) ==
    IF g_str_has_prefix(buf, gst_prefix) THEN g_memmove(buf, 3) ELSE buf

prefix_writes(buf) ==
    IF g_str_has_prefix(buf, gst_prefix) THEN 0..(strlen(buf) - 3) ELSE {}

\* line 224-229: what a call can give for the factory called name: the
\* marker, the element name, the indices of the buffer written
gst_auto_video_src_create_element_with_pretty_name(name) ==
    {[aborted |-> c.aborted,
      writes |-> c.writes \cup (IF c.aborted THEN {} ELSE prefix_writes(c.buf)),
      marker |-> IF c.aborted THEN <<>> ELSE c_str(cut_prefix(c.buf)),
      name |-> IF c.aborted THEN <<>>
               ELSE autovideosrc \o actual_src \o c_str(cut_prefix(c.buf))] :
        c \in cut_suffix(g_strdup(name))}

-----------------------------------------------------------------------------
(* The operations *)

\* gst_auto_video_src_clear_kid leaves the ghost pad alone: removing the kid
\* from the bin either leaves the pad targeting the removed element or, when
\* the core unlinks a pad that goes away, leaves it without a target
clear_kid_targets(k, tgt) ==
    IF k # NoKid /\ tgt = k.id THEN {tgt, NoTarget} ELSE {tgt}

\* the kid left in the bin
clear_kid_keeps_child(k, ch) == ch

clear_kid_children(k, ch) == IF k # NoKid THEN ch \ {k.id} ELSE ch

\* line 134-137: the calls gst_auto_video_src_clear_kid makes
clear_kid_calls(k) ==
    IF k # NoKid THEN <<Ev("set_state_null", k), Ev("bin_remove", k)>> ELSE <<>>

\* the reset made only when the parent's change_state succeeded
reset_on_success(parent) == parent = "SUCCESS"

\* line 390-395: gst_auto_video_src_reset follows the parent's change_state
\* whatever it returned
runs_reset(parent) == TRUE

\* line 155: the placeholder of gst_auto_video_src_reset
tempsrc(id) == Element(fakesrc, "tempsrc", id, "NULL")

\* gst_pad_link of the ghost pad's internal pad: the pad of a fakesrc links,
\* the pad of a candidate links when its feature says so
pad_links(el, reg) ==
    IF el.factory = fakesrc THEN TRUE
    ELSE \A f \in reg : f.name = el.factory => f.links

TypeOK ==
    /\ registry \in Registries
    /\ state \in {"NULL", "READY", "PAUSED"}
    /\ kid.id \in 0..MaxIds
    /\ children \subseteq 1..MaxIds
    /\ target \in 0..MaxIds
    /\ filter_caps \in FilterValues
    /\ ret \in {"none", "SUCCESS", "FAILURE"}

\* no function is applied on its own
NoCall == [fn |-> "none", in |-> <<>>, out |-> <<>>, done |-> FALSE]

\* gst_auto_video_src_init: the bin as it is constructed
Constructed ==
    /\ state = "NULL"
    /\ kid = tempsrc(FreshId({}))
    /\ children = {FreshId({})}
    /\ target = FreshId({})
    /\ filter_caps = raw_caps
    /\ lastOp = "init"
    /\ ret = "none"
    /\ posted = <<>>
    /\ found = NoFind
    /\ earlier = <<>>

\* a bin constructed in a process whose registry holds any of the registries
Init ==
    /\ registry \in Registries
    /\ Constructed
    /\ applied = NoCall

\* between two operations a plugin is registered (or registered anew with
\* another rank or another build of its element) or removed
RegistryChange ==
    /\ \E f \in Catalogue :
         \E reg \in { registry \ {f},
                      { g \in registry : g.name # f.name } \cup {f} } :
            /\ reg \in Registries
            /\ reg # registry
            /\ registry' = reg
    /\ lastOp' = "registry"
    /\ ret' = "none"
    /\ posted' = <<>>
    /\ found' = NoFind
    /\ UNCHANGED <<state, kid, children, target, filter_caps>>

\* gst_auto_video_src_set_property (PROP_CAPS); gst_caps_copy of NULL is NULL
set_property ==
    /\ \E value \in FilterValues : filter_caps' = value
    /\ lastOp' = "set_property"
    /\ ret' = "none"
    /\ posted' = <<>>
    /\ found' = NoFind
    /\ UNCHANGED <<registry, state, kid, children, target>>

no_src_error ==
    Msg("error", autovideosrc, 0, "Failed to find a supported video source")

target_failed_error ==
    Msg("error", autovideosrc, 0, "Failed to set target pad")

\* gst_auto_video_src_change_state (NULL_TO_READY): gst_auto_video_src_detect,
\* then the parent's change_state, which finds the kid in READY already
NullToReady ==
    /\ state = "NULL"
    /\ lastOp' = "NULL_TO_READY"
    /\ \E list \in gst_registry_feature_filter(registry),
          cleared \in clear_kid_targets(kid, target) :
         LET id == FreshId({cleared} \ {NoTarget})
             best == gst_auto_video_src_find_best(list, filter_caps, id)
             esrc == best.choice
             calls == clear_kid_calls(kid) \o best.trace
         IN  /\ IF esrc = NoKid
                THEN \* no_src
                     /\ kid' = NoKid
                     /\ children' = clear_kid_children(kid, children)
                     /\ target' = cleared
                     /\ posted' = Append(best.posted, no_src_error)
                     /\ found' = [best EXCEPT !.trace = calls]
                     /\ ret' = "FAILURE"
                     /\ state' = "NULL"
                ELSE /\ kid' = esrc
                     /\ children' = clear_kid_children(kid, children) \cup {esrc.id}
                     /\ found' = [best EXCEPT !.trace =
                                   calls \o <<Ev("bin_add", esrc),
                                              Ev("set_target", esrc)>>]
                     /\ IF pad_links(esrc, registry)
                        THEN /\ target' = esrc.id
                             /\ posted' = best.posted
                             /\ ret' = "SUCCESS"
                             /\ state' = "READY"
                        ELSE \* target_failed
                             /\ target' = NoTarget
                             /\ posted' = Append(best.posted, target_failed_error)
                             /\ ret' = "FAILURE"
                             /\ state' = "NULL"
    /\ UNCHANGED <<registry, filter_caps>>

\* gst_auto_video_src_change_state (READY_TO_NULL): the parent's change_state,
\* whatever it returns, then gst_auto_video_src_reset
ReadyToNull ==
    /\ state = "READY"
    /\ lastOp' = "READY_TO_NULL"
    /\ \E parent \in {"SUCCESS", "FAILURE"},
          cleared \in clear_kid_targets(kid, target) :
         LET id == FreshId({cleared} \ {NoTarget})
             new == tempsrc(id)
         IN  /\ ret' = parent
             /\ state' = IF parent = "SUCCESS" THEN "NULL" ELSE state
             /\ IF runs_reset(parent)
                THEN /\ kid' = new
                     /\ children' = clear_kid_children(kid, children) \cup {id}
                     /\ target' = id
                     /\ found' = [NoFind EXCEPT !.trace =
                                   clear_kid_calls(kid) \o
                                   <<Ev("create", new), Ev("bin_add", new),
                                     Ev("set_target", new)>>]
                ELSE /\ found' = NoFind
                     /\ UNCHANGED <<kid, children, target>>
    /\ posted' = <<>>
    /\ UNCHANGED <<registry, filter_caps>>

\* gst_auto_video_src_change_state (any other transition): the parent's
\* change_state only, which takes the kid along
PassThrough ==
    /\ \E to \in {"READY", "PAUSED"}, parent \in {"SUCCESS", "FAILURE"} :
         /\ state \in {"READY", "PAUSED"} /\ state # to
         /\ lastOp' = state \o "_TO_" \o to
         /\ ret' = parent
         /\ state' = IF parent = "SUCCESS" THEN to ELSE state
         /\ kid' = IF parent = "SUCCESS" /\ kid # NoKid
                   THEN [kid EXCEPT !.state = to] ELSE kid
    /\ posted' = <<>>
    /\ found' = NoFind
    /\ UNCHANGED <<registry, children, target, filter_caps>>

Next ==
    /\ \/ RegistryChange
       \/ set_property
       \/ NullToReady
       \/ ReadyToNull
       \/ PassThrough
    /\ UNCHANGED <<earlier, applied>>

Spec == Init /\ [][Next]_vars

\* the same bin, observed together with the list of its activation before:
\* activations, deactivations and registry changes in between
Remember ==
    earlier' = IF lastOp = "NULL_TO_READY" THEN found.list ELSE earlier

NextReactivate ==
    /\ \/ RegistryChange
       \/ NullToReady
       \/ ReadyToNull
    /\ Remember
    /\ UNCHANGED applied

SpecReactivate == Init /\ [][NextReactivate]_vars

-----------------------------------------------------------------------------
(* The comparator applied on its own to three features            *)

\* the ranks compared: the ranks plugins use, and ranks around G_MAXINT and
\* G_MAXUINT
SampleRanks ==
    {0, LowRank, GST_RANK_MARGINAL, GST_RANK_SECONDARY, GST_RANK_PRIMARY,
     (RankModulus \div 2) - 1, RankModulus \div 2, HugeRank, RankModulus - 1}

SampleFeatures == [name : {asrc, zsrc}, rank : SampleRanks]

InitCmp ==
    /\ registry = {}
    /\ Constructed
    /\ applied \in [fn : {"compare_ranks"},
                    in : SampleFeatures \X SampleFeatures \X SampleFeatures,
                    out : {<<>>}, done : {FALSE}]

\* the comparisons g_list_sort makes of three features, in both directions
compare_ranks ==
    /\ applied.fn = "compare_ranks" /\ ~applied.done
    /\ applied' =
         [applied EXCEPT
            !.out = [i \in 1..3 |-> [j \in 1..3 |->
                       gst_auto_video_src_compare_ranks(applied.in[i], applied.in[j])]],
            !.done = TRUE]
    /\ UNCHANGED <<registry, state, kid, children, target, filter_caps,
                   lastOp, ret, posted, found, earlier>>

SpecCmp == InitCmp /\ [][compare_ranks]_vars

-----------------------------------------------------------------------------
(* The element name made for two factories                                  *)

\* most characters between the "gst" and the "src" of a factory name
MaxStem == 2

StemChars == {"a", "z", "2"}
Stems == UNION {[1..n -> StemChars] : n \in 0..MaxStem}
FactoryNames ==
    {p \o m \o e : p \in {<<>>, gst_prefix}, m \in Stems,
                   e \in {<<>>, src_suffix, <<"r", "c">>}} \ {<<>>}

InitPretty ==
    /\ registry = {}
    /\ Constructed
    /\ applied \in [fn : {"pretty_name"}, in : FactoryNames \X FactoryNames,
                    out : {<<>>}, done : {FALSE}]

create_element_with_pretty_name ==
    /\ applied.fn = "pretty_name" /\ ~applied.done
    /\ \E o1 \in gst_auto_video_src_create_element_with_pretty_name(applied.in[1]),
          o2 \in gst_auto_video_src_create_element_with_pretty_name(applied.in[2]) :
          applied' = [applied EXCEPT !.out = <<o1, o2>>, !.done = TRUE]
    /\ UNCHANGED <<registry, state, kid, children, target, filter_caps,
                   lastOp, ret, posted, found, earlier>>

SpecPretty == InitPretty /\ [][create_element_with_pretty_name]_vars

-----------------------------------------------------------------------------
(* What the properties speak about, stated on the registry content and not *)
(* through the operators of the probing loop                               *)

Activated == lastOp = "NULL_TO_READY"

\* (a) the feature's element can be created
Instantiates(f) == f.creates
\* (b) its pad caps intersect the configured filter, or there is no filter
MatchesFilter(f) == filter_caps = NoCaps \/ (f.caps \cap filter_caps) # {}
\* (c) its transition to READY returns success
ReachesReady(f) == f.ready = "SUCCESS"

Usable(f) == Instantiates(f) /\ MatchesFilter(f) /\ ReachesReady(f)

\* the feature is a video source with an autoplugging rank
Eligible(f) ==
    /\ f.type = "element"
    /\ "Source" \in f.klass /\ "Video" \in f.klass
    /\ f.rank >= GST_RANK_MARGINAL

\* the feature's element is set to READY when the loop comes to it
Probed(f) == Eligible(f) /\ Instantiates(f) /\ MatchesFilter(f)

\* the kid is the element of a candidate
CandidateBound == kid # NoKid /\ kid.factory # fakesrc

\* the first error message the element of f posts, if it posts one
PostsError(f) == \E i \in 1..Len(f.msgs) : f.msgs[i] = "error"
FirstErrorOf(f) ==
    LET i == CHOOSE k \in 1..Len(f.msgs) :
                 f.msgs[k] = "error" /\ \A j \in 1..(k - 1) : f.msgs[j] # "error"
    IN  Msg("error", f.name, i, "device")

\* every candidate was probed and none reached READY
AllFailed ==
    /\ Activated
    /\ \A f \in registry : ~(Eligible(f) /\ Usable(f))

\* ... and at least one of the probed ones posted an error
AllFailedWithErrors ==
    /\ AllFailed
    /\ \E f \in registry : Probed(f) /\ PostsError(f)

\* the first feature of the probing order that was probed and posted an error
FirstFailing ==
    LET i == CHOOSE k \in 1..Len(found.list) :
                 /\ Probed(found.list[k]) /\ PostsError(found.list[k])
                 /\ \A j \in 1..(k - 1) :
                       ~(Probed(found.list[j]) /\ PostsError(found.list[j]))
    IN  found.list[i]

ErrorsOf(msgs) == SelectSeq(msgs, LAMBDA m : m.type = "error")
WarningsOf(msgs) == SelectSeq(msgs, LAMBDA m : m.type = "warning")

-----------------------------------------------------------------------------
(* C1 *)

\* C1: when an activation leaves the element of a candidate as the kid, that
\* candidate is the first of the probing order that could be created, matched
\* the filter (or no filter was set) and returned success from its transition
\* to READY; every candidate before it in the order failed one of the three.
C1_FirstUsableIsBound ==
    (Activated /\ CandidateBound) =>
        \E i \in 1..Len(found.list) :
            /\ found.list[i].name = kid.factory
            /\ found.list[i] \in registry
            /\ Usable(found.list[i])
            /\ \A j \in 1..(i - 1) : ~Usable(found.list[j])

\* a candidate is bound after a candidate that could not be created, one the
\* filter excluded or one that failed its transition came before it
C1_Witness ==
    /\ Activated /\ CandidateBound /\ state = "READY"
    /\ Len(found.list) = 3
    /\ found.list[3].name = kid.factory
    /\ Len(found.trials) = 2
    /\ filter_caps # NoCaps

-----------------------------------------------------------------------------
(* C2 *)

\* rank descending, and name descending among equal ranks
RankedBefore(f, g) ==
    \/ f.rank > g.rank
    \/ f.rank = g.rank /\ strcmp(f.name, g.name) > 0

\* C2: the probing order of an activation is rank descending and, among equal
\* ranks, name descending, whatever order the registry returned the features
\* in (so the same candidate set is always probed in the same order).
C2_ProbeOrderIsRankThenName ==
    Activated =>
        \A i, j \in 1..Len(found.list) :
            i < j => RankedBefore(found.list[i], found.list[j])

-----------------------------------------------------------------------------
(* C3 *)

-----------------------------------------------------------------------------
(* C4 *)

\* the activation failed fatally: nothing was chosen, or the ghost pad could
\* not be set to target the chosen element
FatalActivation ==
    /\ Activated
    /\ \/ found.choice = NoKid
       \/ \E i \in 1..Len(posted) : posted[i].text = "Failed to set target pad"

\* C4: when an activation fails fatally the transition returns failure and
\* the kid is a placeholder, not NULL and not the element of a candidate.
C4_FatalLeavesPlaceholder ==
    FatalActivation => (ret = "FAILURE" /\ IsPlaceholder(kid))

-----------------------------------------------------------------------------
(* C5 *)

\* C5: a write to filter-caps while the element of a candidate is the kid
\* leaves the stored filter as it was.
C5_FilterWriteRejectedWhileBound ==
    [][(lastOp' = "set_property" /\ CandidateBound) =>
           filter_caps' = filter_caps]_vars

-----------------------------------------------------------------------------
(* C6 *)

\* the messages of candidates among those the bin posted
Forwarded == SelectSeq(posted, LAMBDA m : m.src # autovideosrc)

\* C6: when every candidate failed and errors were recorded, the activation
\* fails and the one candidate message the bin posts is the first error of
\* the first probed candidate that posted an error, unchanged.
C6_FirstErrorIsForwarded ==
    AllFailedWithErrors =>
        /\ ret = "FAILURE"
        /\ Forwarded = <<FirstErrorOf(FirstFailing)>>

\* two candidates recorded errors, the first of them after a message that is
\* no error and more than one
C6_Witness ==
    /\ AllFailedWithErrors
    /\ Len(found.errors) >= 3
    /\ found.errors[1].seq > 1
    /\ \E i \in 1..Len(found.errors) : found.errors[i].src # found.errors[1].src

-----------------------------------------------------------------------------
(* C7 *)

\* C7 as the specification states it: when every candidate failed and errors
\* were recorded, the bin posts exactly one error, the first recorded one.
C7_Original_OneErrorPosted ==
    AllFailedWithErrors =>
        ErrorsOf(posted) = <<FirstErrorOf(FirstFailing)>>

\* C7: when every candidate failed and errors were recorded, the bin posts
\* exactly two messages, both errors: first the first recorded candidate
\* error, unchanged, then its own "Failed to find a supported video source".
C7_FirstErrorThenOwnError ==
    AllFailedWithErrors =>
        /\ Len(posted) = 2
        /\ posted[1] = FirstErrorOf(FirstFailing)
        /\ posted[2].type = "error"
        /\ posted[2].src = autovideosrc
        /\ posted[2].text = "Failed to find a supported video source"

\* two candidates were set to READY and failed, the first without a message:
\* the bin posted the error of the second and then its own
C7_Witness ==
    /\ AllFailedWithErrors
    /\ Len(found.trials) = 2
    /\ Len(posted) = 2
    /\ posted[1].src = found.trials[2]
    /\ posted[2].src = autovideosrc
    /\ ret = "FAILURE"

-----------------------------------------------------------------------------
(* C8 *)

\* no feature of the registry gets as far as the transition to READY
NothingProbed == Activated /\ \A f \in registry : ~Probed(f)

\* C8: when no candidate is eligible (the registry is empty, or every feature
\* is excluded by the factory filter, cannot be created or is excluded by the
\* caps filter) the activation succeeds, a new placeholder is the kid and the
\* target of the ghost pad, and one warning and no error is posted.
C8_NoCandidateFallsBack ==
    NothingProbed =>
        /\ ret = "SUCCESS" /\ state = "READY"
        /\ IsPlaceholder(kid) /\ kid.name = "fake-video-src"
        /\ children = {kid.id}
        /\ target = kid.id
        /\ Len(WarningsOf(posted)) = 1
        /\ ErrorsOf(posted) = <<>>

\* features are registered, and each is excluded in its own way: one by the
\* factory filter, one because it cannot be created, one by the caps filter
C8_Witness ==
    /\ NothingProbed
    /\ Cardinality(registry) = 3
    /\ \E f \in registry : ~Eligible(f)
    /\ \E f \in registry : Eligible(f) /\ ~Instantiates(f)
    /\ \E f \in registry : Eligible(f) /\ Instantiates(f) /\ ~MatchesFilter(f)
    /\ state = "READY"

-----------------------------------------------------------------------------
(* C9 *)

\* the warning and the placeholder of find_best were used
FellBack == Activated /\ kid # NoKid /\ kid.name = "fake-video-src"

\* C9: the fallback is taken only when no candidate was set to READY; when a
\* candidate was set to READY and none succeeded, the activation fails and
\* an error is posted, also when the candidates posted no error message.
C9_FallbackOnlyWhenNothingTried ==
    /\ FellBack => found.trials = <<>>
    /\ (AllFailed /\ \E f \in registry : Probed(f)) =>
           (ret = "FAILURE" /\ ErrorsOf(posted) # <<>>)

-----------------------------------------------------------------------------
(* C10 *)

\* C10: a candidate whose pad caps do not intersect the configured filter is
\* not set to READY in the activation, has no message in the error list and
\* is not the kid.
C10_FilteredCandidateNeverTried ==
    Activated =>
        \A f \in registry :
            (filter_caps # NoCaps /\ (f.caps \cap filter_caps) = {}) =>
                /\ f.name \notin Range(found.trials)
                /\ \A i \in 1..Len(found.errors) : found.errors[i].src # f.name
                /\ kid.factory # f.name

\* a candidate that would have reached READY was created, excluded by the
\* filter, and a candidate after it in the order was bound
C10_Witness ==
    /\ Activated /\ CandidateBound
    /\ filter_caps # NoCaps
    /\ \E i \in 1..Len(found.list) :
          /\ ~MatchesFilter(found.list[i])
          /\ Instantiates(found.list[i]) /\ ReachesReady(found.list[i])
          /\ found.list[i].name \in Range(found.created)
          /\ \E j \in (i + 1)..Len(found.list) : found.list[j].name = kid.factory

-----------------------------------------------------------------------------
(* C11 *)

\* the positions of the probing list whose feature would be bound
UsablePositions == { i \in 1..Len(found.list) : Usable(found.list[i]) }

FirstUsable == CHOOSE i \in UsablePositions : \A j \in UsablePositions : i <= j

\* C11: every activation probes exactly the eligible features the registry
\* holds at that activation and binds the first usable one of them (none when
\* none is usable), whatever the registry held and whatever was bound or
\* failed at the activations before.
C11_ActivationReadsRegistryAfresh ==
    Activated =>
        /\ Range(found.list) = { f \in registry : Eligible(f) }
        /\ Len(found.list) = Cardinality({ f \in registry : Eligible(f) })
        /\ IF UsablePositions # {}
           THEN CandidateBound /\ kid.factory = found.list[FirstUsable].name
           ELSE ~CandidateBound

\* the candidate at the head of the list failed at the activation before, was
\* registered anew since, and is now usable and bound
C11_Witness ==
    /\ Activated /\ CandidateBound /\ ret = "SUCCESS"
    /\ earlier # <<>>
    /\ ~ReachesReady(earlier[1])
    /\ earlier[1] \notin registry
    /\ found.list[1].name = earlier[1].name
    /\ kid.factory = found.list[1].name

-----------------------------------------------------------------------------
(* C12 *)

\* a candidate of the activation succeeded its transition to READY
TrialSucceeded == Activated /\ \E f \in registry : Eligible(f) /\ Usable(f)

\* the pad of the kid links to the ghost pad
KidLinks == \A f \in registry : f.name = kid.factory => f.links

\* C12 as the specification states it: when a candidate succeeds its trial
\* the bin posts no error and no warning in that activation.
C12_Original_NothingPosted ==
    TrialSucceeded => posted = <<>>

\* C12: when a candidate succeeds its trial the bin posts no warning and no
\* message of a candidate, whatever the candidates before it recorded; it
\* posts nothing at all when the ghost pad takes the new target, and its own
\* "Failed to set target pad" error, and only that, when it does not.
C12_RecordedFailuresDiscarded ==
    TrialSucceeded =>
        /\ Forwarded = <<>>
        /\ WarningsOf(posted) = <<>>
        /\ IF KidLinks
           THEN posted = <<>> /\ ret = "SUCCESS"
           ELSE /\ Len(posted) = 1
                /\ posted[1].type = "error"
                /\ posted[1].src = autovideosrc
                /\ posted[1].text = "Failed to set target pad"
                /\ ret = "FAILURE"

\* a candidate failed and recorded errors, a candidate after it was bound and
\* nothing was posted
C12_Witness ==
    /\ TrialSucceeded /\ CandidateBound
    /\ Len(found.errors) >= 2
    /\ Len(found.trials) >= 2
    /\ posted = <<>>
    /\ ret = "SUCCESS"

-----------------------------------------------------------------------------
(* C13 *)

Deactivated == lastOp = "READY_TO_NULL"

\* C13: every READY->NULL transition, whatever the parent's change_state
\* returned, sets the kid it finds to NULL and removes it from the bin, and
\* leaves a placeholder created in that transition as the kid, the only
\* child and the target of the ghost pad.
C13_DeactivationResets ==
    [][Deactivated' =>
         /\ kid # NoKid =>
               /\ Len(found'.trace) >= 2
               /\ found'.trace[1] = Ev("set_state_null", kid)
               /\ found'.trace[2] = Ev("bin_remove", kid)
         /\ kid'.factory = fakesrc /\ kid'.name = "tempsrc"
         /\ kid'.state = "NULL"
         /\ \E i \in 1..Len(found'.trace) : found'.trace[i] = Ev("create", kid')
         /\ children' = {kid'.id}
         /\ target' = kid'.id]_vars

\* the parent's change_state failed on the way down and the kid that was
\* removed was the element of a candidate
C13_Witness ==
    /\ Deactivated /\ ret = "FAILURE"
    /\ Len(found.trace) >= 2
    /\ found.trace[2].call = "bin_remove"
    /\ found.trace[2].factory # fakesrc
    /\ kid.name = "tempsrc" /\ target = kid.id

-----------------------------------------------------------------------------
(* C14 *)

\* an element factory with "Source" and "Video" in its class and a rank
\* that is not zero
NonZeroRankVideoSource(f) ==
    /\ f.type = "element"
    /\ "Source" \in f.klass /\ "Video" \in f.klass
    /\ f.rank # 0

\* C14: the candidates of an activation are exactly the registered element
\* factories with "Source" and "Video" in their class and a non-zero rank:
\* those make up the probing list, each of them is created (when it can be)
\* unless a candidate before it was chosen, and nothing else is.
C14_CandidatesHaveNonZeroRank ==
    Activated =>
        /\ Range(found.list) = { f \in registry : NonZeroRankVideoSource(f) }
        /\ \A f \in registry :
              f.name \in Range(found.created) => NonZeroRankVideoSource(f)
        /\ \A f \in registry :
              (NonZeroRankVideoSource(f) /\ Instantiates(f) /\ ~CandidateBound)
                  => f.name \in Range(found.created)

-----------------------------------------------------------------------------
(* C15 *)

SameElement(e, g) == e.factory = g.factory /\ e.id = g.id

\* the elements that, after the first n calls of a trace, have been set to
\* READY and not set to NULL since
OutsideNull(trace, n) ==
    { i \in 1..n :
        /\ trace[i].call = "set_state_ready"
        /\ \A j \in (i + 1)..n :
              ~(trace[j].call = "set_state_null" /\ SameElement(trace[j], trace[i])) }

\* the elements that, after the first n calls, have been created and neither
\* released nor put into the bin
InHand(trace, n) ==
    { i \in 1..n :
        /\ trace[i].call = "create"
        /\ \A j \in (i + 1)..n :
              ~(trace[j].call \in {"unref", "bin_add"} /\ SameElement(trace[j], trace[i])) }

\* C15: in an activation the kid found is set to NULL and removed before
\* anything else, at no point are two elements outside NULL, and when a
\* candidate is created no element is outside NULL and every candidate
\* created before it has been released.
C15_OneElementAtATime ==
    [][Activated' =>
         /\ kid # NoKid =>
               /\ Len(found'.trace) >= 2
               /\ found'.trace[1] = Ev("set_state_null", kid)
               /\ found'.trace[2] = Ev("bin_remove", kid)
         /\ \A n \in 0..Len(found'.trace) :
               Cardinality(OutsideNull(found'.trace, n)) <= 1
         /\ \A p \in 1..Len(found'.trace) :
               found'.trace[p].call = "create" =>
                   /\ OutsideNull(found'.trace, p - 1) = {}
                   /\ InHand(found'.trace, p - 1) = {}
                   /\ kid # NoKid => p > 2]_vars

\* the activation found the element of a candidate left in READY as the kid,
\* two candidates failed their trial one after the other and a third was bound
C15_Witness ==
    /\ Activated /\ CandidateBound
    /\ Len(found.trials) = 3
    /\ found.trace[1].call = "set_state_null"
    /\ found.trace[1].factory # fakesrc

-----------------------------------------------------------------------------
(* C16 *)

\* C16: in every state the bin holds at most one child; the child, when
\* there is one, is the kid, a kid is always the child, and the only element
\* an operation ever adds to the bin is the one it leaves as the kid.
C16_AtMostOneChild ==
    /\ Cardinality(children) <= 1
    /\ children # {} => (kid # NoKid /\ children = {kid.id})
    /\ kid # NoKid => children = {kid.id}
    /\ \A i \in 1..Len(found.trace) :
          found.trace[i].call = "bin_add" =>
              (kid # NoKid /\ SameElement(found.trace[i], kid))

\* three candidates were created, two of them rejected, and the third is the
\* kid and the only child
C16_Witness ==
    /\ Activated /\ CandidateBound
    /\ Len(found.created) = 3
    /\ children = {kid.id}

-----------------------------------------------------------------------------
(* C17 *)

NoDuplicates(seq) ==
    \A i, j \in 1..Len(seq) : seq[i] = seq[j] => i = j

\* the position of the feature called name in the probing order
PositionOf(name) ==
    CHOOSE k \in 1..Len(found.list) : found.list[k].name = name

\* the three ends of gst_auto_video_src_find_best
EndsChosen == found.choice # NoKid /\ found.choice.factory # fakesrc
EndsFallback ==
    /\ IsPlaceholder(found.choice)
    /\ found.posted = <<not_found_warning>>
EndsFatal ==
    /\ found.choice = NoKid
    /\ Len(found.posted) = 1 /\ found.posted[1].type = "error"

\* C17: in one activation every candidate is created at most once and set to
\* READY at most once, each of them is a feature of the sorted list, nothing
\* that comes after the chosen candidate in the list is created or set to
\* READY, there are no more trials than candidates, and the probing ends in
\* exactly one of: candidate chosen, placeholder with a warning, no element
\* with an error.
C17_ProbingIsBoundedAndEndsOnce ==
    Activated =>
        /\ NoDuplicates(found.created) /\ NoDuplicates(found.trials)
        /\ \A i \in 1..Len(found.created) :
              \E k \in 1..Len(found.list) : found.list[k].name = found.created[i]
        /\ \A i \in 1..Len(found.trials) :
              \E j \in 1..Len(found.created) : found.created[j] = found.trials[i]
        /\ Len(found.trials) <= Len(found.list)
        /\ Cardinality({i \in 1..Len(found.trace) :
                           found.trace[i].call = "set_state_ready"
                           /\ found.trace[i].factory # fakesrc})
              = Len(found.trials)
        /\ EndsChosen =>
              /\ found.trials[Len(found.trials)] = found.choice.factory
              /\ \A i \in 1..Len(found.created) :
                    PositionOf(found.created[i]) <= PositionOf(found.choice.factory)
        /\ \/ EndsChosen /\ ~EndsFallback /\ ~EndsFatal
           \/ ~EndsChosen /\ EndsFallback /\ ~EndsFatal
           \/ ~EndsChosen /\ ~EndsFallback /\ EndsFatal

\* the first of three candidates reached READY and was chosen: the two after
\* it were not created
C17_Witness ==
    /\ Activated /\ EndsChosen
    /\ Len(found.list) = 3
    /\ found.created = <<found.list[1].name>>
    /\ found.trials = found.created

-----------------------------------------------------------------------------
(* C18 *)

Sign(x) == IF x < 0 THEN 0 - 1 ELSE IF x > 0 THEN 1 ELSE 0

Compared == applied.fn = "compare_ranks" /\ applied.done

\* C18: for all ranks the comparator's result for (f1, f2) has the sign of
\* rank(f2) - rank(f1) when the ranks differ, the result for (f2, f1) has the
\* opposite sign, and f1 <= f2 and f2 <= f3 give f1 <= f3.
C18_ComparatorIsTotalOrder ==
    Compared =>
        \A i, j, k \in 1..3 :
            /\ applied.in[i].rank # applied.in[j].rank =>
                  Sign(applied.out[i][j])
                      = Sign(applied.in[j].rank - applied.in[i].rank)
            /\ Sign(applied.out[i][j]) = 0 - Sign(applied.out[j][i])
            /\ (applied.out[i][j] <= 0 /\ applied.out[j][k] <= 0)
                  => applied.out[i][k] <= 0

-----------------------------------------------------------------------------
(* C19 *)

Named == applied.fn = "pretty_name" /\ applied.done

\* the name without a trailing "src" and without a leading "gst"
WithoutSrc(name) ==
    IF Len(name) >= 3 /\ SubSeq(name, Len(name) - 2, Len(name)) = src_suffix
    THEN SubSeq(name, 1, Len(name) - 3) ELSE name
WithoutGst(name) ==
    IF Len(name) >= 3 /\ SubSeq(name, 1, 3) = gst_prefix
    THEN SubSeq(name, 4, Len(name)) ELSE name

\* C19: for all factory names the call completes, writes only at indices
\* 0..strlen of the copy, leaves as marker the name without its trailing
\* "src" and its leading "gst", and gives two different factory names two
\* different element names.
C19_NormalizationIsSafeAndInjective ==
    Named =>
        /\ \A k \in 1..2 :
              /\ ~applied.out[k].aborted
              /\ applied.out[k].writes \subseteq 0..Len(applied.in[k])
              /\ applied.out[k].marker = WithoutGst(WithoutSrc(applied.in[k]))
        /\ applied.in[1] # applied.in[2] =>
              applied.out[1].name # applied.out[2].name

=============================================================================
